---- MODULE Spec2Model ----
(***************************************************************************)
(* Model of package csv (nickng/csv): the struct tag parser ParseTag       *)
(* (src/tag.go) and the generic Reader[T] (src/unnamed/part_001):          *)
(* NewReader / validateFields, parseHeader, assignFields and Read.         *)
(*                                                                         *)
(* Texts (Go strings) are sequences of one-character strings, so that      *)
(* strings.ContainsRune and strings.Split are computed, not assumed.       *)
(* Positions are 1-based here and 0-based in Go: column c / field f of the *)
(* model are column c-1 / field f-1 of the code.                           *)
(***************************************************************************)
EXTENDS Integers, Sequences, FiniteSets, TLC

VARIABLES
  T,        \* the type argument of Reader[T] (a reflect type description)
  r,        \* the *Reader[T]: ok (NewReader returned it), parsedHeader, fieldIndex
  newErr,   \* what NewReader returned (or how it ended)
  rd,       \* the underlying *csv.Reader: rows consumed so far, end reached
  rec,      \* the caller's row variable handed to Read as rowPtr
  header,   \* history: the row parseHeader bound
  last,     \* history: what the latest Read pulled and returned
  calls,    \* history: number of Read calls made
  clean,    \* history: no source error so far and every Read got a fresh target
  tag,      \* ParseTag input (tag specification)
  qual,     \* qualifier text appended after a comma (tag specification)
  parsed,   \* ParseTag(tag), once computed
  parsedQ   \* ParseTag(tag + "," + qual), once computed

vars == <<T, r, newErr, rd, rec, header, last, calls, clean, tag, qual, parsed, parsedQ>>

readerVars == <<T, r, newErr, rd, rec, header, last, calls, clean>>
tagVars == <<tag, qual, parsed, parsedQ>>

(***************************************************************************)
(* Bounds                                                                  *)
(***************************************************************************)
MaxTagLen == 3
MaxQualLen == 2
MaxFields == 2
MaxCols == 2
MaxRows == 2
MaxCalls == 3

Chars == {"a", "-", ","}

Texts(n) == UNION {[1..k -> Chars] : k \in 0..n}

(***************************************************************************)
(* tag.go                                                                  *)
(***************************************************************************)
ContainsRune(s, c) == \E i \in 1..Len(s) : s[i] = c

RECURSIVE Split(_, _)
Split(s, sep) ==
  IF ~ContainsRune(s, sep) THEN <<s>>
  ELSE LET i == CHOOSE k \in 1..Len(s) :
                  s[k] = sep /\ \A j \in 1..(k - 1) : s[j] # sep
       IN <<SubSeq(s, 1, i - 1)>> \o Split(SubSeq(s, i + 1, Len(s)), sep)

Tag(fieldHeader) == [FieldHeader |-> fieldHeader]

ParseTag_NoAppend(t) ==
  LET parts == Split(t, ",")
  IN IF Len(parts) > 1 /\ parts[1] # <<"-">> THEN Tag(parts[1]) ELSE Tag(<<>>)

ParseTag_NoDash(t) ==
  LET fullTag == IF ~ContainsRune(t, ",") THEN t \o <<",">> ELSE t
      parts == Split(fullTag, ",")
  IN IF Len(parts) > 1 THEN Tag(parts[1]) ELSE Tag(<<>>)

ParseTag(t) ==
  LET fullTag == IF ~ContainsRune(t, ",") THEN t \o <<",">> ELSE t
      parts == Split(fullTag, ",")
  IN IF Len(parts) > 1 /\ parts[1] # <<"-">> THEN Tag(parts[1]) ELSE Tag(<<>>)

(***************************************************************************)
(* Record types: what reflect reports about T.                             *)
(***************************************************************************)
\* struct fields: the csv tag, the reflect kind, whether the name is exported
FieldDecls ==
  {[tag |-> <<>>, kind |-> "String", exported |-> TRUE],
   [tag |-> <<"-">>, kind |-> "Int", exported |-> TRUE],
   [tag |-> <<"a">>, kind |-> "String", exported |-> TRUE],
   [tag |-> <<"a">>, kind |-> "String", exported |-> FALSE],
   [tag |-> <<"a">>, kind |-> "Int", exported |-> TRUE],
   [tag |-> <<"b", ",", "o">>, kind |-> "String", exported |-> TRUE]}

FieldSeqs == UNION {[1..k -> FieldDecls] : k \in 0..MaxFields}

Types ==
  {[kind |-> k, elem |-> "None", fields |-> <<>>] : k \in {"Struct", "String", "Interface"}}
  \cup {[kind |-> "Pointer", elem |-> e, fields |-> <<>>] : e \in {"String", "Pointer"}}
  \cup {[kind |-> "Pointer", elem |-> "Struct", fields |-> fs] : fs \in FieldSeqs}

(***************************************************************************)
(* Reader: validateFields, NewReader                                       *)
(***************************************************************************)
NoError == [err |-> "nil", field |-> 0]
errNotPointer == [err |-> "errNotPointer", field |-> 0]
errNotStructPointer == [err |-> "errNotStructPointer", field |-> 0]
errFieldNotAssignable(i) == [err |-> "errFieldNotAssignable", field |-> i]
Panicked == [err |-> "panic", field |-> 0]
Unset == [err |-> "unset", field |-> 0]

RECURSIVE validateLoop(_, _)
validateLoop(fields, i) ==
  IF i > Len(fields) THEN NoError
  ELSE IF ParseTag(fields[i].tag).FieldHeader # <<>> /\ fields[i].kind # "String"
       THEN errFieldNotAssignable(i)
       ELSE validateLoop(fields, i + 1)

\* reflect.TypeOf of the zero value of an interface type is nil, and Kind()
\* on the nil reflect.Type is a nil dereference.
validateFields(t) ==
  IF t.kind = "Interface" THEN Panicked
  ELSE IF t.kind # "Pointer" THEN errNotPointer
  ELSE IF t.elem # "Struct" THEN errNotStructPointer
  ELSE validateLoop(t.fields, 1)

EmptyMap == [x \in {} |-> 0]
NilMap == [nil |-> TRUE, m |-> EmptyMap]
NoReader == [ok |-> FALSE, parsedHeader |-> FALSE, fieldIndex |-> NilMap]
NewReaderValue == [ok |-> TRUE, parsedHeader |-> FALSE, fieldIndex |-> NilMap]

NilRec == [nil |-> TRUE, f |-> <<>>]
ZeroRec(t) == [nil |-> FALSE, f |-> [i \in 1..Len(t.fields) |-> <<>>]]

NoItem == [kind |-> "none", fields |-> <<>>]
NoLast == [hpull |-> NoItem, dpull |-> NoItem, err |-> "nil"]

NewReader ==
  /\ newErr = Unset
  /\ newErr' = validateFields(T)
  /\ r' = IF newErr' = NoError THEN NewReaderValue ELSE NoReader
  /\ UNCHANGED <<T, rd, rec, header, last, calls, clean, tagVars>>

(***************************************************************************)
(* The row source (encoding/csv.Reader over the caller's input)            *)
(***************************************************************************)
Cells == {<<>>, <<"a">>}
Rows == UNION {[1..k -> Cells] : k \in 1..MaxCols}

\* one rd.Read(): the next row, a parse error (the line is consumed), or io.EOF
Pulls(src) ==
  IF src.eof \/ src.pos >= MaxRows
  THEN {[item |-> [kind |-> "EOF", fields |-> <<>>], rd |-> [src EXCEPT !.eof = TRUE]]}
  ELSE {[item |-> [kind |-> "row", fields |-> row], rd |-> [src EXCEPT !.pos = @ + 1]] : row \in Rows}
       \cup {[item |-> [kind |-> "ParseError", fields |-> <<>>], rd |-> [src EXCEPT !.pos = @ + 1]]}
       \cup {[item |-> [kind |-> "EOF", fields |-> <<>>], rd |-> [src EXCEPT !.eof = TRUE]]}

NoPull(src) == {[item |-> NoItem, rd |-> src]}

(***************************************************************************)
(* Reader: parseHeader                                                     *)
(***************************************************************************)
MapPut(m, k, v) == [x \in (DOMAIN m) \cup {k} |-> IF x = k THEN v ELSE m[x]]

RECURSIVE headerToIndex_FirstWins(_, _, _)
headerToIndex_FirstWins(hdr, i, m) ==
  IF i > Len(hdr) THEN m
  ELSE headerToIndex_FirstWins(hdr, i + 1,
         IF hdr[i] \in DOMAIN m THEN m ELSE MapPut(m, hdr[i], i))

RECURSIVE headerToIndex(_, _, _)
headerToIndex(hdr, i, m) ==
  IF i > Len(hdr) THEN m
  ELSE headerToIndex(hdr, i + 1, MapPut(m, hdr[i], i))

RECURSIVE parseHeaderLoop(_, _, _, _)
parseHeaderLoop(h2i, fields, i, fi) ==
  IF i > Len(fields) THEN fi
  ELSE LET name == ParseTag(fields[i].tag).FieldHeader
           made == IF fi.nil THEN [nil |-> FALSE, m |-> EmptyMap] ELSE fi
       IN IF name \notin DOMAIN h2i
          THEN parseHeaderLoop(h2i, fields, i + 1, made)
          ELSE parseHeaderLoop(h2i, fields, i + 1,
                 [made EXCEPT !.m = MapPut(made.m, h2i[name], i)])

\* reflect.Indirect of a nil pointer is the zero Value; NumField on it panics
parseHeader(rdr, fields, hdr, rowPtr) ==
  IF rowPtr.nil THEN [r |-> rdr, panic |-> "zero Value"]
  ELSE [r |-> [rdr EXCEPT !.fieldIndex =
                 parseHeaderLoop(headerToIndex(hdr, 1, EmptyMap), fields, 1, rdr.fieldIndex)],
        panic |-> "none"]

(***************************************************************************)
(* Reader: assignFields                                                    *)
(***************************************************************************)
\* reflect.Value.SetString panics unless the field is settable (exported)
\* and of kind String; FieldByIndex on the zero Value (nil rowPtr) panics.
RECURSIVE assignLoop(_, _, _, _, _)
assignLoop(fi, fields, record, i, rowPtr) ==
  IF i > Len(record) THEN [rowPtr |-> rowPtr, panic |-> "none"]
  ELSE IF fi.nil \/ i \notin DOMAIN fi.m THEN assignLoop(fi, fields, record, i + 1, rowPtr)
  ELSE IF rowPtr.nil THEN [rowPtr |-> rowPtr, panic |-> "zero Value"]
  ELSE LET sfIndex == fi.m[i]
       IN IF ~fields[sfIndex].exported \/ fields[sfIndex].kind # "String"
          THEN [rowPtr |-> rowPtr, panic |-> "SetString"]
          ELSE assignLoop(fi, fields, record, i + 1,
                          [rowPtr EXCEPT !.f[sfIndex] = record[i]])

assignFields(rdr, fields, record, rowPtr) ==
  assignLoop(rdr.fieldIndex, fields, record, 1, rowPtr)

(***************************************************************************)
(* Reader: Read                                                            *)
(***************************************************************************)
\* how a Read that panicked ended: the reflect call that panicked
Panic(what) == IF what = "SetString" THEN "panic: SetString" ELSE "panic: zero Value"

\* lines 98-107: ret = "go on" when execution reaches line 108
headerStep_SetFlagFirst(rdr, fields, rowPtr, item) ==
  IF rdr.parsedHeader THEN [r |-> rdr, ret |-> "go on"]
  ELSE IF item.kind # "row" THEN [r |-> [rdr EXCEPT !.parsedHeader = TRUE], ret |-> item.kind]
  ELSE LET ph == parseHeader(rdr, fields, item.fields, rowPtr)
       IN IF ph.panic # "none" THEN [r |-> ph.r, ret |-> Panic(ph.panic)]
          ELSE [r |-> [ph.r EXCEPT !.parsedHeader = TRUE], ret |-> "go on"]

headerStep(rdr, fields, rowPtr, item) ==
  IF rdr.parsedHeader THEN [r |-> rdr, ret |-> "go on"]
  ELSE IF item.kind # "row" THEN [r |-> rdr, ret |-> item.kind]
  ELSE LET ph == parseHeader(rdr, fields, item.fields, rowPtr)
       IN IF ph.panic # "none" THEN [r |-> ph.r, ret |-> Panic(ph.panic)]
          ELSE [r |-> [ph.r EXCEPT !.parsedHeader = TRUE], ret |-> "go on"]

\* lines 108-115
dataStep(rdr, fields, rowPtr, item, ret) ==
  IF ret # "go on" THEN [rowPtr |-> rowPtr, ret |-> ret]
  ELSE IF item.kind # "row" THEN [rowPtr |-> rowPtr, ret |-> item.kind]
  ELSE LET af == assignFields(rdr, fields, item.fields, rowPtr)
       IN [rowPtr |-> af.rowPtr, ret |-> IF af.panic # "none" THEN Panic(af.panic) ELSE "nil"]

HeaderPulls(rdr, src) == IF rdr.parsedHeader THEN NoPull(src) ELSE Pulls(src)

DataPulls_Always(ret, src) == Pulls(src)

DataPulls(ret, src) == IF ret # "go on" THEN NoPull(src) ELSE Pulls(src)

Read ==
  /\ r.ok
  /\ calls < MaxCalls
  /\ \E h \in HeaderPulls(r, rd) :
       LET hs == headerStep(r, T.fields, rec, h.item) IN
       \E d \in DataPulls(hs.ret, h.rd) :
         LET ds == dataStep(hs.r, T.fields, rec, d.item, hs.ret) IN
         /\ r' = hs.r
         /\ rd' = d.rd
         /\ rec' = ds.rowPtr
         /\ header' = IF h.item.kind = "row" /\ hs.ret = "go on" THEN h.item.fields ELSE header
         /\ last' = [hpull |-> h.item, dpull |-> d.item, err |-> ds.ret]
         /\ calls' = calls + 1
         /\ clean' = (/\ clean
                      /\ rec = ZeroRec(T)
                      /\ h.item.kind \in {"none", "row"}
                      /\ d.item.kind \in {"row", "EOF"})
  /\ UNCHANGED <<T, newErr, tagVars>>

\* the caller declares a new row variable (var record exampleType; &record)
FreshTarget ==
  /\ r.ok
  /\ rec # ZeroRec(T)
  /\ rec' = ZeroRec(T)
  /\ UNCHANGED <<T, r, newErr, rd, header, last, calls, clean, tagVars>>

\* the caller passes a nil *struct
NilTarget ==
  /\ r.ok
  /\ ~rec.nil
  /\ rec' = NilRec
  /\ UNCHANGED <<T, r, newErr, rd, header, last, calls, clean, tagVars>>

(***************************************************************************)
(* Specification of the reader                                             *)
(***************************************************************************)
NoTag == [FieldHeader |-> <<"?">>]

Init ==
  /\ T \in Types
  /\ r = NoReader
  /\ newErr = Unset
  /\ rd = [pos |-> 0, eof |-> FALSE]
  /\ rec = NilRec
  /\ header = <<>>
  /\ last = NoLast
  /\ calls = 0
  /\ clean = TRUE
  /\ tag = <<>>
  /\ qual = <<>>
  /\ parsed = NoTag
  /\ parsedQ = NoTag

Next == NewReader \/ Read \/ FreshTarget \/ NilTarget

Spec == Init /\ [][Next]_vars

(***************************************************************************)
(* Specification of the tag parser: every tag and qualifier text within    *)
(* the bounds, ParseTag applied to the tag alone and to tag "," qualifier. *)
(***************************************************************************)
InitTag ==
  /\ T = [kind |-> "String", elem |-> "None", fields |-> <<>>]
  /\ r = NoReader
  /\ newErr = Unset
  /\ rd = [pos |-> 0, eof |-> FALSE]
  /\ rec = NilRec
  /\ header = <<>>
  /\ last = NoLast
  /\ calls = 0
  /\ clean = TRUE
  /\ tag \in Texts(MaxTagLen)
  /\ qual \in Texts(MaxQualLen)
  /\ parsed = NoTag
  /\ parsedQ = NoTag

ParsePlain ==
  /\ parsed = NoTag
  /\ parsed' = ParseTag(tag)
  /\ UNCHANGED <<readerVars, tag, qual, parsedQ>>

ParseQualified ==
  /\ parsedQ = NoTag
  /\ parsedQ' = ParseTag(tag \o <<",">> \o qual)
  /\ UNCHANGED <<readerVars, tag, qual, parsed>>

NextTag == ParsePlain \/ ParseQualified

SpecTag == InitTag /\ [][NextTag]_vars

(***************************************************************************)
(* Vocabulary of the properties                                            *)
(***************************************************************************)
Fields == 1..Len(T.fields)
colName(f) == ParseTag(T.fields[f].tag).FieldHeader
Keys(rdr) == IF rdr.fieldIndex.nil THEN {} ELSE DOMAIN rdr.fieldIndex.m
FieldAt(rdr, c) == rdr.fieldIndex.m[c]
Unbound(f) == T.fields[f].tag \in {<<>>, <<"-">>}
TextField(f) == T.fields[f].kind = "String"
ReadStep == calls' = calls + 1
HeaderPullFailed(l) == l.hpull.kind \in {"EOF", "ParseError"}
Consumed(item) == IF item.kind \in {"row", "ParseError"} THEN 1 ELSE 0
BadFields(t) ==
  {i \in 1..Len(t.fields) :
     ParseTag(t.fields[i].tag).FieldHeader # <<>> /\ t.fields[i].kind # "String"}
FirstOf(S) == CHOOSE i \in S : \A j \in S : i <= j
DistinctNames ==
  /\ \A f1, f2 \in Fields :
       (f1 # f2 /\ colName(f1) # <<>>) => colName(f1) # colName(f2)
  /\ \A c1, c2 \in 1..Len(header') : c1 # c2 => header'[c1] # header'[c2]

(***************************************************************************)
(* C1. On a validated reader over a source that delivers a header row and  *)
(* then data rows without error, every Read given a fresh target and a     *)
(* data row succeeds, has consumed exactly one row more than the number of *)
(* calls (the header), and leaves each bound field equal to the row's      *)
(* value in the column whose header text is the field's column name; a     *)
(* Read that meets the end of the rows returns io.EOF. Column names are    *)
(* taken to be pairwise distinct, in the header and among the fields.      *)
(***************************************************************************)
C1_ReadBindsByName ==
  [][(ReadStep /\ clean' /\ r'.parsedHeader /\ DistinctNames) =>
       /\ last'.dpull.kind = "row" =>
            /\ last'.err = "nil"
            /\ rd'.pos = calls' + 1
            /\ \A f \in Fields : \A c \in 1..Len(header') :
                 (colName(f) # <<>> /\ header'[c] = colName(f)
                    /\ c <= Len(last'.dpull.fields))
                 => rec'.f[f] = last'.dpull.fields[c]
       /\ last'.dpull.kind = "EOF" => last'.err = "EOF"]_vars

(***************************************************************************)
(* C2. NewReader pulls no row and returns errNotPointer when T is not a    *)
(* pointer, else errNotStructPointer when T does not point to a struct,    *)
(* else errFieldNotAssignable for the first field with a non-empty column  *)
(* name and a kind other than string, else no error.                       *)
(***************************************************************************)
C2_ValidationOrder ==
  (newErr # Unset) =>
    /\ calls = 0 => rd = [pos |-> 0, eof |-> FALSE]
    /\ newErr = IF T.kind # "Pointer" THEN errNotPointer
                ELSE IF T.elem # "Struct" THEN errNotStructPointer
                ELSE IF BadFields(T) # {} THEN errFieldNotAssignable(FirstOf(BadFields(T)))
                ELSE NoError

C4_AssignWritesMapped ==
  [][(ReadStep /\ last'.dpull.kind = "row" /\ ~rec.nil) =>
       \A f \in Fields :
         LET hit == {i \in Keys(r') : i <= Len(last'.dpull.fields) /\ FieldAt(r', i) = f}
         IN IF hit # {}
            THEN \A i \in hit : TextField(f) /\ rec'.f[f] = last'.dpull.fields[i]
            ELSE rec'.f[f] = rec.f[f]]_vars

C6_DashFormsDiffer ==
  (tag = <<"-">> /\ parsed # NoTag /\ parsedQ # NoTag) =>
    /\ parsed = Tag(<<>>)
    /\ parsedQ.FieldHeader = <<>>
    /\ parsed # parsedQ

(***************************************************************************)
(* C6, amended: ParseTag("-") and ParseTag("-," q) both return the zero    *)
(* Tag, whose column name is empty; the two results are equal.             *)
(***************************************************************************)
C6_DashFormsAgree ==
  (tag = <<"-">>) =>
    /\ parsed # NoTag => parsed = Tag(<<>>)
    /\ parsedQ # NoTag => parsedQ = Tag(<<>>)
    /\ (parsed # NoTag /\ parsedQ # NoTag) => parsed = parsedQ

C6_Witness ==
  tag = <<"-">> /\ qual # <<>> /\ parsed # NoTag /\ parsedQ # NoTag

(***************************************************************************)
(* C7, as claimed: once the header is bound, a column position is a key of *)
(* the map iff some field's column name equals the header text at that     *)
(* position, and the map sends a key to a field with that column name.     *)
(***************************************************************************)
C7_KeyIffNameMatches ==
  r.parsedHeader =>
    \A c \in 1..Len(header) :
      /\ c \in Keys(r) <=> \E f \in Fields : colName(f) = header[c]
      /\ c \in Keys(r) => colName(FieldAt(r, c)) = header[c]

(***************************************************************************)
(* C7, amended: once the header is bound, a column position is a key of    *)
(* the map iff some field's column name equals the header text at that     *)
(* position and no later column carries the same text; every key is a      *)
(* position of the header, and the map sends it to a field with that       *)
(* column name.                                                            *)
(***************************************************************************)
C7_KeyIffLastMatch ==
  r.parsedHeader =>
    /\ Keys(r) \subseteq 1..Len(header)
    /\ \A c \in 1..Len(header) :
         /\ c \in Keys(r) <=>
              /\ \E f \in Fields : colName(f) = header[c]
              /\ \A c2 \in (c + 1)..Len(header) : header[c2] # header[c]
         /\ c \in Keys(r) => colName(FieldAt(r, c)) = header[c]

C7_Witness ==
  /\ r.parsedHeader
  /\ \E c1, c2 \in 1..Len(header) :
       /\ c1 < c2 /\ header[c1] = header[c2] /\ header[c1] # <<>>
       /\ c2 \in Keys(r) /\ c1 \notin Keys(r)

(***************************************************************************)
(* C8, as claimed: every Read pulls one data row, and the first Read alone *)
(* pulls a header row as well.                                             *)
(***************************************************************************)
C8_OneDataRowPerCall ==
  [][ReadStep =>
       /\ last'.dpull.kind # "none"
       /\ last'.hpull.kind # "none" <=> calls = 0]_vars

(***************************************************************************)
(* C8, amended: a Read on a reader whose header is bound pulls exactly one *)
(* row, a data row. A Read on a reader whose header is not bound (the      *)
(* first call, or a call after header pulls that failed) pulls a header    *)
(* row, and then a data row only if that pull delivered a row and the      *)
(* target was not nil; the source advances by the rows and errors pulled.  *)
(***************************************************************************)
C8_PullsPerCall ==
  [][ReadStep =>
       /\ last'.hpull.kind # "none" <=> ~r.parsedHeader
       /\ last'.dpull.kind # "none" <=>
            (r.parsedHeader \/ (last'.hpull.kind = "row" /\ ~rec.nil))
       /\ rd'.pos = rd.pos + Consumed(last'.hpull) + Consumed(last'.dpull)]_vars

C8_Witness ==
  calls >= 2 /\ last.hpull.kind = "row" /\ last.dpull.kind # "none"

C10_MappedFieldsAreText ==
  /\ \A c \in Keys(r) : TextField(FieldAt(r, c))
  /\ last.err # "panic: SetString"

====
